---------------------------- MODULE Spec2Model ----------------------------
(***************************************************************************)
(* Lecture pipeline of NaniShiteruSensei: text segmentation (chunk_text    *)
(* of lecture_notes_ollama.py and the paragraph chunking of                *)
(* translate_jp_to_en_ollama.py), the three drivers (notes, translation,   *)
(* transcription), audio chunk collection and the Japanese heuristic.      *)
(*                                                                         *)
(* Characters are Unicode code points (integers); a string is a sequence   *)
(* of code points.  97 = "a", 32 = " ", 10 = "\n", 13 = "\r", 114 = "r",     *)
(* 115 = "s", 12354 = HIRAGANA A, 19968 = CJK "one", 12540 = PROLONGED    *)
(* SOUND MARK (outside the ranges of the heuristic).                      *)
(***************************************************************************)
EXTENDS Integers, Sequences, FiniteSets, TLC

VARIABLES
    mode,        \* which entry point / function runs
    pc,          \* position of the run
    inputExists, \* whether the input path exists
    text,        \* contents of the input file (or the function's argument)
    max_chars,   \* --chunk-chars / --max-chars
    chunks,      \* the Units (text chunks, or audio chunk file names)
    results,     \* summaries / translated_chunks / all_texts
    i,           \* number of loop iterations completed
    callLog,     \* history: external collaborator calls made, in order
    outFiles,    \* history: contents written to the output path, in order
    chunkDir,    \* chunk_*.m4a names present in <stem>_chunks
    produced,    \* history: names the demuxer wrote in this run
    threshold,   \* looks_like_japanese threshold, a rational <<num, den>>
    verdict      \* value returned by looks_like_japanese

vars == <<mode, pc, inputExists, text, max_chars, chunks, results, i,
          callLog, outFiles, chunkDir, produced, threshold, verdict>>

-----------------------------------------------------------------------------
(* Bounds of the model *)

MaxTokens == 5
MaxChars == 6
DocChars == 9
ChunkChars == 3
MaxPipeTokens == 5
MaxStale == 2
MaxSegments == 3
MaxHeurLen == 3
MaxDen == 3

(* Program constants *)

LF == 10
CR == 13
PadWidth == 3
DefaultThresholdNum == 3
DefaultThresholdDen == 10

-----------------------------------------------------------------------------
(* String primitives of Python used by the code *)

\* str.isspace() for one code point (what str.strip() removes)
IsSpace(c) ==
    \/ c \in 9..13
    \/ c \in 28..32
    \/ c \in {133, 160, 5760, 8232, 8233, 8239, 8287, 12288}
    \/ c \in 8192..8202

RECURSIVE LStrip(_)
LStrip(s) ==
    IF s # <<>> /\ IsSpace(Head(s)) THEN LStrip(Tail(s)) ELSE s

RECURSIVE RStrip(_)
RStrip(s) ==
    IF s # <<>> /\ IsSpace(s[Len(s)]) THEN RStrip(SubSeq(s, 1, Len(s) - 1)) ELSE s

\* str.strip()
Strip(s) == RStrip(LStrip(s))

HasPrefix(s, p) == Len(s) >= Len(p) /\ SubSeq(s, 1, Len(p)) = p

\* str.replace(old, new), old non-empty: non-overlapping, left to right
RECURSIVE Replace(_, _, _)
Replace(s, old, new) ==
    IF s = <<>> THEN <<>>
    ELSE IF HasPrefix(s, old)
         THEN new \o Replace(SubSeq(s, Len(old) + 1, Len(s)), old, new)
         ELSE <<Head(s)>> \o Replace(Tail(s), old, new)

RECURSIVE SplitAcc(_, _, _)
SplitAcc(s, sep, acc) ==
    IF s = <<>> THEN <<acc>>
    ELSE IF HasPrefix(s, sep)
         THEN <<acc>> \o SplitAcc(SubSeq(s, Len(sep) + 1, Len(s)), sep, <<>>)
         ELSE SplitAcc(Tail(s), sep, Append(acc, Head(s)))

\* str.split(sep), sep non-empty: always at least one piece
Split(s, sep) == SplitAcc(s, sep, <<>>)

\* sep.join(parts)
RECURSIVE Join(_, _)
Join(parts, sep) ==
    IF parts = <<>> THEN <<>>
    ELSE IF Len(parts) = 1 THEN parts[1]
    ELSE parts[1] \o sep \o Join(Tail(parts), sep)

\* text.replace("\r\n", "\n").replace("\r", "\n")
NormalizeNewlines(s) == Replace(Replace(s, <<CR, LF>>, <<LF>>), <<CR>>, <<LF>>)

-----------------------------------------------------------------------------
(* chunk_text: the line-based segmenter of lecture_notes_ollama.py *)

\* chunks = [], current = [], current_len = 0
ChunkInit == [chunks |-> <<>>, current |-> <<>>, current_len |-> 0]

\* a faulty variant: the size test forgets the candidate's own length
ChunkStepNoLen(st, rawline, maxc) ==
    LET line == Strip(rawline) IN
    IF st.current_len + 1 > maxc /\ st.current # <<>>
    THEN [chunks |-> Append(st.chunks, Strip(Join(st.current, <<LF>>))),
          current |-> <<line>>,
          current_len |-> Len(line) + 1]
    ELSE [chunks |-> st.chunks,
          current |-> Append(st.current, line),
          current_len |-> st.current_len + Len(line) + 1]

\* one iteration of "for line in text.split('\n')"
ChunkStep(st, rawline, maxc) ==
    LET line == Strip(rawline) IN
    IF st.current_len + Len(line) + 1 > maxc /\ st.current # <<>>
    THEN [chunks |-> Append(st.chunks, Strip(Join(st.current, <<LF>>))),
          current |-> <<line>>,
          current_len |-> Len(line) + 1]
    ELSE [chunks |-> st.chunks,
          current |-> Append(st.current, line),
          current_len |-> st.current_len + Len(line) + 1]

\* the loop after its first k iterations
RECURSIVE ChunkLoop(_, _, _)
ChunkLoop(lines, k, maxc) ==
    IF k = 0 THEN ChunkInit
    ELSE ChunkStep(ChunkLoop(lines, k - 1, maxc), lines[k], maxc)

NonEmpty(s) == s # <<>>

\* a faulty variant: the trailing "if current: chunks.append(...)" is missing
chunk_text_noflush(txt, maxc) ==
    LET lines == Split(NormalizeNewlines(txt), <<LF>>)
        st == ChunkLoop(lines, Len(lines), maxc)
    IN  SelectSeq(st.chunks, NonEmpty)

\* a faulty variant: the closing filter "[c for c in chunks if c]" is missing
chunk_text_keep_empty(txt, maxc) ==
    LET lines == Split(NormalizeNewlines(txt), <<LF>>)
        st == ChunkLoop(lines, Len(lines), maxc)
    IN  IF st.current # <<>>
        THEN Append(st.chunks, Strip(Join(st.current, <<LF>>)))
        ELSE st.chunks

chunk_text(txt, maxc) ==
    LET lines == Split(NormalizeNewlines(txt), <<LF>>)
        st == ChunkLoop(lines, Len(lines), maxc)
        flushed == IF st.current # <<>>
                   THEN Append(st.chunks, Strip(Join(st.current, <<LF>>)))
                   ELSE st.chunks
    IN  SelectSeq(flushed, NonEmpty)

-----------------------------------------------------------------------------
(* the paragraph chunking of translate_jp_to_en_ollama.py main() *)

ParaInit == [chunks |-> <<>>, current |-> <<>>, cur_len |-> 0]

\* a faulty variant: closes as soon as the running length reaches max_chars
ParaStepEager(st, rawpara, maxc) ==
    LET para == Strip(rawpara) IN
    IF para = <<>> THEN st
    ELSE IF st.cur_len + Len(para) + 2 >= maxc /\ st.current # <<>>
    THEN [chunks |-> Append(st.chunks, Join(st.current, <<LF, LF>>)),
          current |-> <<para>>,
          cur_len |-> Len(para) + 2]
    ELSE [chunks |-> st.chunks,
          current |-> Append(st.current, para),
          cur_len |-> st.cur_len + Len(para) + 2]

\* one iteration of "for para in paragraphs"
ParaStep(st, rawpara, maxc) ==
    LET para == Strip(rawpara) IN
    IF para = <<>> THEN st
    ELSE IF st.cur_len + Len(para) + 2 > maxc /\ st.current # <<>>
    THEN [chunks |-> Append(st.chunks, Join(st.current, <<LF, LF>>)),
          current |-> <<para>>,
          cur_len |-> Len(para) + 2]
    ELSE [chunks |-> st.chunks,
          current |-> Append(st.current, para),
          cur_len |-> st.cur_len + Len(para) + 2]

RECURSIVE ParaLoop(_, _, _)
ParaLoop(paras, k, maxc) ==
    IF k = 0 THEN ParaInit
    ELSE ParaStep(ParaLoop(paras, k - 1, maxc), paras[k], maxc)

paragraph_chunks(txt, maxc) ==
    LET paras == Split(NormalizeNewlines(txt), <<LF, LF>>)
        st == ParaLoop(paras, Len(paras), maxc)
    IN  IF st.current # <<>>
        THEN Append(st.chunks, Join(st.current, <<LF, LF>>))
        ELSE st.chunks

-----------------------------------------------------------------------------
(* looks_like_japanese of transcribe_lecture.py *)

\* the character class [ぁ-んァ-ン一-龯]
IsTargetScript(c) ==
    \/ c \in 12353..12435
    \/ c \in 12449..12531
    \/ c \in 19968..40879

\* a faulty variant: a strict comparison with the threshold
looks_like_japanese_strict(txt, th) ==
    IF txt = <<>> THEN FALSE
    ELSE LET jp_chars == SelectSeq(txt, IsTargetScript)
             len == IF Len(txt) > 1 THEN Len(txt) ELSE 1
         IN  Len(jp_chars) * th[2] > th[1] * len

\* th = <<num, den>>, den > 0, stands for num/den;
\* len(jp_chars) / max(len(text), 1) >= threshold, cross-multiplied
looks_like_japanese(txt, th) ==
    IF txt = <<>> THEN FALSE
    ELSE LET jp_chars == SelectSeq(txt, IsTargetScript)
             len == IF Len(txt) > 1 THEN Len(txt) ELSE 1
         IN  Len(jp_chars) * th[2] >= th[1] * len

DefaultThreshold == <<DefaultThresholdNum, DefaultThresholdDen>>

-----------------------------------------------------------------------------
(* split_audio of transcribe_lecture.py: names and their order *)

RECURSIVE Digits(_)
Digits(n) ==
    IF n < 10 THEN <<48 + n>> ELSE Digits(n \div 10) \o <<48 + (n % 10)>>

RECURSIVE ZeroPad(_, _)
ZeroPad(d, w) == IF Len(d) >= w THEN d ELSE ZeroPad(<<48>> \o d, w)

\* "chunk_%03d.m4a" % k
ChunkName(k) ==
    <<99, 104, 117, 110, 107, 95>> \o ZeroPad(Digits(k), PadWidth)
        \o <<46, 109, 52, 97>>

\* a < b for strings (and for paths in one directory)
RECURSIVE LexLess(_, _)
LexLess(a, b) ==
    IF b = <<>> THEN FALSE
    ELSE IF a = <<>> THEN TRUE
    ELSE IF Head(a) # Head(b) THEN Head(a) < Head(b)
    ELSE LexLess(Tail(a), Tail(b))

\* a faulty variant: the listing is returned in descending order
RECURSIVE SortedDesc(_)
SortedDesc(S) ==
    IF S = {} THEN <<>>
    ELSE LET m == CHOOSE x \in S : \A y \in S \ {x} : LexLess(y, x)
         IN  <<m>> \o SortedDesc(S \ {m})

\* sorted(chunk_dir.glob("chunk_*.m4a")): independent of the listing order
RECURSIVE Sorted(_)
Sorted(S) ==
    IF S = {} THEN <<>>
    ELSE LET m == CHOOSE x \in S : \A y \in S \ {x} : LexLess(x, y)
         IN  <<m>> \o Sorted(S \ {m})

-----------------------------------------------------------------------------
(* External collaborators *)

\* what the LLM endpoint can answer: a "response" string, or a failure
LLMOutcomes ==
    {[ok |-> TRUE, response |-> r] : r \in {<<114>>, <<32, 115>>}}
        \cup {[ok |-> FALSE, response |-> <<>>]}

\* call_ollama on a successful exchange: data.get("response", "").strip()
call_ollama(outcome) == Strip(outcome.response)

\* what model.transcribe can answer: a "text" string, or an exception
AsrOutcomes ==
    {[ok |-> TRUE, response |-> r] :
        r \in {<<>>, <<32>>, <<12354, 32>>, <<12354, 97, 97, 97, 97>>}}
        \cup {[ok |-> FALSE, response |-> <<>>]}

-----------------------------------------------------------------------------
(* lecture_notes_ollama.py *)

\* a faulty variant: the parts are merged last summary first
merged_summaries_reversed(summaries) ==
    [k \in 1..Len(summaries) |->
        [label |-> k, summary |-> summaries[Len(summaries) + 1 - k]]]

\* "[Part {i+1}]\n{summaries[i]}" for i in range(len(summaries)), in order
merged_summaries(summaries) ==
    [k \in 1..Len(summaries) |->
        [label |-> (k - 1) + 1, summary |-> summaries[k]]]

NotesSegment ==
    /\ mode = "notes" /\ pc = "start"
    /\ IF ~inputExists
       THEN /\ pc' = "done"
            /\ UNCHANGED chunks
       ELSE /\ chunks' = chunk_text(text, max_chars)
            /\ pc' = "units"
    /\ UNCHANGED <<mode, inputExists, text, max_chars, results, i, callLog,
                   outFiles, chunkDir, produced, threshold, verdict>>

\* a faulty variant: a failed request is tried again
NotesSummarizeRetry ==
    /\ mode = "notes" /\ pc = "units" /\ i < Len(chunks)
    /\ \E o \in LLMOutcomes :
        /\ callLog' = Append(callLog,
                [op |-> "summarize", unit |-> i + 1, total |-> Len(chunks),
                 payload |-> chunks[i + 1], ok |-> o.ok,
                 response |-> o.response])
        /\ IF o.ok
           THEN /\ results' = Append(results, call_ollama(o))
                /\ i' = i + 1
           ELSE UNCHANGED <<results, i>>
        /\ pc' = pc
    /\ Len(callLog) < 2 * Len(chunks) + 2
    /\ UNCHANGED <<mode, inputExists, text, max_chars, chunks, outFiles,
                   chunkDir, produced, threshold, verdict>>

\* one iteration of the summarizing loop: summarize_chunk -> call_ollama
NotesSummarize ==
    /\ mode = "notes" /\ pc = "units" /\ i < Len(chunks)
    /\ \E o \in LLMOutcomes :
        /\ callLog' = Append(callLog,
                [op |-> "summarize", unit |-> i + 1, total |-> Len(chunks),
                 payload |-> chunks[i + 1], ok |-> o.ok,
                 response |-> o.response])
        /\ IF o.ok
           THEN /\ results' = Append(results, call_ollama(o))
                /\ i' = i + 1
                /\ pc' = pc
           ELSE /\ pc' = "failed"
                /\ UNCHANGED <<results, i>>
    /\ UNCHANGED <<mode, inputExists, text, max_chars, chunks, outFiles,
                   chunkDir, produced, threshold, verdict>>

\* build_final_notes_from_summaries, then out_path.write_text(final_notes)
NotesFinal ==
    /\ mode = "notes" /\ pc = "units" /\ i = Len(chunks)
    /\ \E o \in LLMOutcomes :
        /\ callLog' = Append(callLog,
                [op |-> "final", unit |-> 0, total |-> Len(chunks),
                 payload |-> merged_summaries(results), ok |-> o.ok,
                 response |-> o.response])
        /\ IF o.ok
           THEN /\ outFiles' = Append(outFiles, call_ollama(o))
                /\ pc' = "done"
           ELSE /\ pc' = "failed"
                /\ UNCHANGED outFiles
    /\ UNCHANGED <<mode, inputExists, text, max_chars, chunks, results, i,
                   chunkDir, produced, threshold, verdict>>

-----------------------------------------------------------------------------
(* translate_jp_to_en_ollama.py *)

TranslateSegment ==
    /\ mode = "translate" /\ pc = "start"
    /\ IF ~inputExists
       THEN /\ pc' = "done"
            /\ UNCHANGED chunks
       ELSE /\ chunks' = paragraph_chunks(text, max_chars)
            /\ pc' = "units"
    /\ UNCHANGED <<mode, inputExists, text, max_chars, results, i, callLog,
                   outFiles, chunkDir, produced, threshold, verdict>>

TranslateUnit ==
    /\ mode = "translate" /\ pc = "units" /\ i < Len(chunks)
    /\ \E o \in LLMOutcomes :
        /\ callLog' = Append(callLog,
                [op |-> "translate", unit |-> i + 1, total |-> Len(chunks),
                 payload |-> chunks[i + 1], ok |-> o.ok,
                 response |-> o.response])
        /\ IF o.ok
           THEN /\ results' = Append(results, call_ollama(o))
                /\ i' = i + 1
                /\ pc' = pc
           ELSE /\ pc' = "failed"
                /\ UNCHANGED <<results, i>>
    /\ UNCHANGED <<mode, inputExists, text, max_chars, chunks, outFiles,
                   chunkDir, produced, threshold, verdict>>

\* out_path.write_text("\n\n".join(translated_chunks))
TranslateWrite ==
    /\ mode = "translate" /\ pc = "units" /\ i = Len(chunks)
    /\ outFiles' = Append(outFiles, Join(results, <<LF, LF>>))
    /\ pc' = "done"
    /\ UNCHANGED <<mode, inputExists, text, max_chars, chunks, results, i,
                   callLog, chunkDir, produced, threshold, verdict>>

-----------------------------------------------------------------------------
(* transcribe_lecture.py *)

\* a faulty variant: a chunk that does not look Japanese is dropped
TranscribeEntryDropNoisy(pos, name, txt) ==
    IF txt = <<>> THEN <<>>
    ELSE IF ~looks_like_japanese(txt, DefaultThreshold) THEN <<>>
    ELSE <<[kind |-> "chunk", pos |-> pos, name |-> name, text |-> txt]>>

\* a faulty variant: entries are numbered by their place in all_texts
TranscribeEntryRenumbered(pos, name, txt) ==
    IF txt = <<>> THEN <<>>
    ELSE IF ~looks_like_japanese(txt, DefaultThreshold)
    THEN <<[kind |-> "nonjp", pos |-> 1, name |-> <<>>, text |-> txt]>>
    ELSE <<[kind |-> "chunk", pos |-> 1, name |-> name, text |-> txt]>>

\* what one loop iteration appends to all_texts for the stripped text txt of
\* chunk number pos: nothing, "[? 非日本語っぽいチャンク {i}] {text}", or
\* "----- [Chunk {i}] {name} -----\n{text}"
TranscribeEntry(pos, name, txt) ==
    IF txt = <<>> THEN <<>>
    ELSE IF ~looks_like_japanese(txt, DefaultThreshold)
    THEN <<[kind |-> "nonjp", pos |-> pos, name |-> <<>>, text |-> txt]>>
    ELSE <<[kind |-> "chunk", pos |-> pos, name |-> name, text |-> txt]>>

\* main's existence check, then split_audio: mkdir(exist_ok=True), ffmpeg,
\* sorted(glob), sys.exit(1) when nothing is found
TranscribeSplit ==
    /\ mode = "transcribe" /\ pc = "start"
    /\ IF ~inputExists
       THEN /\ pc' = "exit1"
            /\ UNCHANGED <<chunks, callLog, chunkDir, produced>>
       ELSE \E n \in 0..MaxSegments, ok \in BOOLEAN :
            LET written == {ChunkName(k) : k \in 0..(n - 1)} IN
            /\ produced' = written
            /\ chunkDir' = chunkDir \cup written
            /\ callLog' = Append(callLog,
                    [op |-> "ffmpeg", unit |-> 0, total |-> 0,
                     payload |-> <<>>, ok |-> ok, response |-> <<>>])
            /\ IF ~ok
               THEN /\ pc' = "failed"
                    /\ UNCHANGED chunks
               ELSE /\ chunks' = Sorted(chunkDir')
                    /\ pc' = IF chunks' = <<>> THEN "exit1" ELSE "load"
    /\ UNCHANGED <<mode, inputExists, text, max_chars, results, i, outFiles,
                   threshold, verdict>>

\* whisper.load_model at the top of transcribe_chunks
TranscribeLoad ==
    /\ mode = "transcribe" /\ pc = "load"
    /\ \E ok \in BOOLEAN :
        /\ callLog' = Append(callLog,
                [op |-> "load_model", unit |-> 0, total |-> Len(chunks),
                 payload |-> <<>>, ok |-> ok, response |-> <<>>])
        /\ pc' = IF ok THEN "units" ELSE "failed"
    /\ UNCHANGED <<mode, inputExists, text, max_chars, chunks, results, i,
                   outFiles, chunkDir, produced, threshold, verdict>>

\* one iteration of "for i, chunk_path in enumerate(chunks, start=1)"
TranscribeUnit ==
    /\ mode = "transcribe" /\ pc = "units" /\ i < Len(chunks)
    /\ \E o \in AsrOutcomes :
        /\ callLog' = Append(callLog,
                [op |-> "transcribe", unit |-> i + 1, total |-> Len(chunks),
                 payload |-> chunks[i + 1], ok |-> o.ok,
                 response |-> o.response])
        /\ IF o.ok
           THEN /\ results' = results \o
                        TranscribeEntry(i + 1, chunks[i + 1], Strip(o.response))
                /\ i' = i + 1
                /\ pc' = pc
           ELSE /\ pc' = "failed"
                /\ UNCHANGED <<results, i>>
    /\ UNCHANGED <<mode, inputExists, text, max_chars, chunks, outFiles,
                   chunkDir, produced, threshold, verdict>>

\* full_text = "\n".join(all_texts).strip(); out_path.write_text(full_text)
\* (the transcript is kept as its sequence of entries)
TranscribeWrite ==
    /\ mode = "transcribe" /\ pc = "units" /\ i = Len(chunks)
    /\ outFiles' = Append(outFiles, results)
    /\ pc' = "done"
    /\ UNCHANGED <<mode, inputExists, text, max_chars, chunks, results, i,
                   callLog, chunkDir, produced, threshold, verdict>>

-----------------------------------------------------------------------------
(* the functions applied on their own *)

CallChunkText ==
    /\ mode = "chunk_text" /\ pc = "start"
    /\ chunks' = chunk_text(text, max_chars)
    /\ pc' = "done"
    /\ UNCHANGED <<mode, inputExists, text, max_chars, results, i, callLog,
                   outFiles, chunkDir, produced, threshold, verdict>>

CallParagraphChunks ==
    /\ mode = "paragraphs" /\ pc = "start"
    /\ chunks' = paragraph_chunks(text, max_chars)
    /\ pc' = "done"
    /\ UNCHANGED <<mode, inputExists, text, max_chars, results, i, callLog,
                   outFiles, chunkDir, produced, threshold, verdict>>

CallLooksLikeJapanese ==
    /\ mode = "heuristic" /\ pc = "start"
    /\ verdict' = looks_like_japanese(text, threshold)
    /\ pc' = "done"
    /\ UNCHANGED <<mode, inputExists, text, max_chars, chunks, results, i,
                   callLog, outFiles, chunkDir, produced, threshold>>

-----------------------------------------------------------------------------
(* Inputs *)

\* all concatenations of at most n pieces
RECURSIVE TokenTexts(_, _)
TokenTexts(tokens, n) ==
    IF n = 0 THEN {<<>>}
    ELSE LET prev == TokenTexts(tokens, n - 1)
         IN  prev \cup {t \o tok : t \in prev, tok \in tokens}

\* "a", " ", "\n", "\r", and a paragraph break
SegTexts ==
    TokenTexts({<<97>>, <<32>>, <<LF>>, <<CR>>, <<LF, LF>>}, MaxTokens)

LineLengthsAtMost(txt, n) ==
    LET lines == Split(NormalizeNewlines(txt), <<LF>>)
    IN  \A k \in 1..Len(lines) : Len(lines[k]) <= n

\* texts of exactly DocChars characters with no line longer than ChunkChars
ScenarioTexts ==
    {t \in [1..DocChars -> {97, 32, LF}] : LineLengthsAtMost(t, ChunkChars)}

PipeTexts == TokenTexts({<<97>>, <<32>>, <<LF, LF>>}, MaxPipeTokens)

HeurTexts == TokenTexts({<<12354>>, <<19968>>, <<12540>>, <<97>>}, MaxHeurLen)

Thresholds ==
    {<<n, d>> : n \in (-1)..(MaxDen + 1), d \in 1..MaxDen} \cup {DefaultThreshold}

\* what an earlier run on the same input can have left in <stem>_chunks
StaleDirs == {{ChunkName(k) : k \in 0..(m - 1)} : m \in 0..MaxStale}

Init ==
    /\ pc = "start"
    /\ mode \in {"notes", "translate", "transcribe"}
    /\ inputExists \in BOOLEAN
    /\ IF mode = "transcribe"
       THEN /\ text = <<>> /\ max_chars = 1
            /\ chunkDir \in StaleDirs
       ELSE /\ text \in PipeTexts /\ max_chars \in 1..MaxChars
            /\ chunkDir = {}
    /\ chunks = <<>> /\ results = <<>> /\ i = 0
    /\ callLog = <<>> /\ outFiles = <<>> /\ produced = {}
    /\ threshold = DefaultThreshold /\ verdict = FALSE

Next ==
    \/ NotesSegment
    \/ NotesSummarize
    \/ NotesFinal
    \/ TranslateSegment
    \/ TranslateUnit
    \/ TranslateWrite
    \/ TranscribeSplit
    \/ TranscribeLoad
    \/ TranscribeUnit
    \/ TranscribeWrite

Spec == Init /\ [][Next]_vars

InitSeg ==
    /\ pc = "start"
    /\ mode \in {"chunk_text", "paragraphs"}
    /\ inputExists = TRUE
    /\ text \in SegTexts
    /\ max_chars \in 1..MaxChars
    /\ chunks = <<>> /\ results = <<>> /\ i = 0
    /\ callLog = <<>> /\ outFiles = <<>> /\ chunkDir = {} /\ produced = {}
    /\ threshold = DefaultThreshold /\ verdict = FALSE

NextSeg == CallChunkText \/ CallParagraphChunks

SpecSeg == InitSeg /\ [][NextSeg]_vars

InitScenario ==
    /\ pc = "start"
    /\ mode = "chunk_text"
    /\ inputExists = TRUE
    /\ text \in ScenarioTexts
    /\ max_chars = ChunkChars
    /\ chunks = <<>> /\ results = <<>> /\ i = 0
    /\ callLog = <<>> /\ outFiles = <<>> /\ chunkDir = {} /\ produced = {}
    /\ threshold = DefaultThreshold /\ verdict = FALSE

NextScenario == CallChunkText

SpecScenario == InitScenario /\ [][NextScenario]_vars

InitHeur ==
    /\ pc = "start"
    /\ mode = "heuristic"
    /\ inputExists = TRUE
    /\ text \in HeurTexts
    /\ threshold \in Thresholds
    /\ max_chars = 1
    /\ chunks = <<>> /\ results = <<>> /\ i = 0
    /\ callLog = <<>> /\ outFiles = <<>> /\ chunkDir = {} /\ produced = {}
    /\ verdict = FALSE

NextHeur == CallLooksLikeJapanese

SpecHeur == InitHeur /\ [][NextHeur]_vars

-----------------------------------------------------------------------------
(* Vocabulary of the properties *)

NotSpace(c) == ~IsSpace(c)

\* a string with every whitespace character removed
RemoveSpace(s) == SelectSeq(s, NotSpace)

\* the candidates the segmenter of the current mode walks over
Pieces ==
    IF mode = "paragraphs"
    THEN Split(NormalizeNewlines(text), <<LF, LF>>)
    ELSE Split(NormalizeNewlines(text), <<LF>>)

Sep == IF mode = "paragraphs" THEN <<LF, LF>> ELSE <<LF>>

StepOf(st, piece) ==
    IF mode = "paragraphs"
    THEN ParaStep(st, piece, max_chars)
    ELSE ChunkStep(st, piece, max_chars)

\* the accumulator before each candidate, and after the last one
RECURSIVE TraceFrom(_, _)
TraceFrom(st, pieces) ==
    IF pieces = <<>> THEN <<st>>
    ELSE <<st>> \o TraceFrom(StepOf(st, Head(pieces)), Tail(pieces))

LoopTrace ==
    TraceFrom(IF mode = "paragraphs" THEN ParaInit ELSE ChunkInit, Pieces)

\* the segmenter closed a Unit when it looked at candidate k
Closes(tr, k) == Len(tr[k + 1].chunks) = Len(tr[k].chunks) + 1

\* the accumulated candidates joined with candidate k
JoinedWith(tr, k) == Join(Append(tr[k].current, Strip(Pieces[k])), Sep)

\* the non-blank trimmed lines of the input, in order
RECURSIVE TrimmedNonBlank(_)
TrimmedNonBlank(lines) ==
    IF lines = <<>> THEN <<>>
    ELSE IF Strip(Head(lines)) = <<>> THEN TrimmedNonBlank(Tail(lines))
    ELSE <<Strip(Head(lines))>> \o TrimmedNonBlank(Tail(lines))

\* the non-blank lines of the Units, Unit after Unit
RECURSIVE UnitLines(_)
UnitLines(units) ==
    IF units = <<>> THEN <<>>
    ELSE SelectSeq(Split(Head(units), <<LF>>), NonEmpty) \o UnitLines(Tail(units))

SegDone == mode \in {"chunk_text", "paragraphs"} /\ pc = "done"

-----------------------------------------------------------------------------
\* C1: every Unit of the line segmenter and of the paragraph segmenter is at
\* most max_chars long, unless it is exactly one trimmed line (paragraph) of
\* the input that is itself longer than max_chars.
C1_SizeBound ==
    SegDone =>
        \A k \in 1..Len(chunks) :
            \/ Len(chunks[k]) <= max_chars
            \/ \E j \in 1..Len(Pieces) : chunks[k] = Strip(Pieces[j])

\* an oversized paragraph emitted on its own after a Unit within the bound
C1_Witness ==
    /\ SegDone /\ mode = "paragraphs"
    /\ Len(chunks) >= 2
    /\ Len(chunks[2]) > max_chars
    /\ Len(chunks[1]) <= max_chars

\* C2: the Units of chunk_text, concatenated, have the non-whitespace
\* content of the input in the same order, and the Units are made of whole
\* trimmed lines of the input, in input order.
C2_Reconstructs ==
    (mode = "chunk_text" /\ pc = "done") =>
        /\ RemoveSpace(Join(chunks, <<>>)) = RemoveSpace(text)
        /\ UnitLines(chunks) = TrimmedNonBlank(Pieces)

\* several Units, with whitespace of the input dropped and a "\r" boundary
C2_Witness ==
    /\ mode = "chunk_text" /\ pc = "done"
    /\ Len(chunks) >= 2
    /\ \E k \in 1..Len(text) : text[k] = CR
    /\ \E k \in 1..Len(text) : text[k] = 32
    /\ \E k \in 1..Len(chunks) : Len(chunks[k]) >= 3

\* C3 as stated: a (non-blank) Unit is closed before a (non-blank) candidate
\* only if the Unit joined with the candidate would be longer than max_chars.
C3_ClosesOnlyWhenExceeding ==
    SegDone =>
        LET tr == LoopTrace IN
        \A k \in 1..Len(Pieces) :
            (/\ Closes(tr, k)
             /\ Strip(Pieces[k]) # <<>>
             /\ Strip(Join(tr[k].current, Sep)) # <<>>) =>
                Len(Strip(Join(tr[k].current, Sep)) \o Sep \o Strip(Pieces[k]))
                    > max_chars

\* C3 amended: a Unit is closed before a (non-blank, for paragraphs)
\* candidate exactly when the accumulator is not empty and the accumulated
\* candidates joined with it, plus one more separator, are longer than
\* max_chars.
C3_GreedyWithSeparator ==
    SegDone =>
        LET tr == LoopTrace IN
        \A k \in 1..Len(Pieces) :
            Closes(tr, k) <=>
                /\ tr[k].current # <<>>
                /\ mode = "paragraphs" => Strip(Pieces[k]) # <<>>
                /\ Len(JoinedWith(tr, k)) + Len(Sep) > max_chars

\* a Unit closed although the candidate would still have fitted
C3_Witness ==
    /\ SegDone
    /\ LET tr == LoopTrace IN
       \E k \in 1..Len(Pieces) :
        /\ Closes(tr, k)
        /\ Strip(Pieces[k]) # <<>>
        /\ Strip(Join(tr[k].current, Sep)) # <<>>
        /\ Len(JoinedWith(tr, k)) <= max_chars

\* the text has no blank line and no whitespace but its line breaks
DenseText ==
    /\ \A k \in 1..Len(text) : text[k] = LF \/ ~IsSpace(text[k])
    /\ \A k \in 1..Len(Pieces) : Pieces[k] # <<>>

\* no two neighbouring lines fit into one Unit of max_chars
NoNeighboursFit ==
    \A k \in 1..(Len(Pieces) - 1) :
        Len(Pieces[k]) + 1 + Len(Pieces[k + 1]) > max_chars

\* C4 as stated (for texts without blank lines or padding in which no two
\* neighbouring lines fit into max_chars): the scenario text always gives
\* exactly 3 Units.
C4_ExactlyThreeUnits ==
    (mode = "chunk_text" /\ pc = "done" /\ DenseText /\ NoNeighboursFit) =>
        /\ Len(chunks) = 3
        /\ \A k \in 1..Len(chunks) : Len(chunks[k]) <= max_chars
        /\ UnitLines(chunks) = TrimmedNonBlank(Pieces)

\* C4 amended: a text with no line longer than max_chars gives Units of at
\* most max_chars each that reproduce its trimmed lines; their number is at
\* least the non-whitespace length divided by max_chars and at most the
\* number of non-blank lines, and at least (length + 1) / (max_chars + 1)
\* when the text has no blank lines or padding.
C4_UnitCountRange ==
    (mode = "chunk_text" /\ pc = "done" /\ LineLengthsAtMost(text, max_chars)) =>
        /\ \A k \in 1..Len(chunks) : Len(chunks[k]) <= max_chars
        /\ UnitLines(chunks) = TrimmedNonBlank(Pieces)
        /\ Len(chunks) * max_chars >= Len(RemoveSpace(text))
        /\ Len(chunks) <= Len(TrimmedNonBlank(Pieces))
        /\ DenseText => Len(chunks) * (max_chars + 1) >= Len(text) + 1

\* a scenario text cut into more than 3 Units
C4_Witness ==
    /\ mode = "chunk_text" /\ pc = "done"
    /\ Len(text) = DocChars /\ max_chars = ChunkChars
    /\ LineLengthsAtMost(text, max_chars)
    /\ DenseText /\ NoNeighboursFit
    /\ Len(chunks) > 3

\* C5: on an empty or whitespace-only input a text pipeline has zero Units,
\* does not fail, asks nothing of the LLM and writes an empty result.
C5_EmptyInput ==
    (/\ mode \in {"notes", "translate"}
     /\ inputExists
     /\ RemoveSpace(text) = <<>>
     /\ pc # "start") =>
        /\ chunks = <<>>
        /\ pc # "failed"
        /\ callLog = <<>>
        /\ pc = "done" => outFiles = << <<>> >>

OkSummarize(e) == e.op = "summarize" /\ e.ok

\* C6: the second-pass request of the notes driver carries the summary of
\* every Unit exactly once, summary k under label k; the entries of the
\* transcript are in strictly increasing Unit position.
C6_OrderPreserved ==
    /\ mode = "notes" =>
        \A c \in 1..Len(callLog) :
            callLog[c].op = "final" =>
                LET sums == SelectSeq(callLog, OkSummarize)
                    parts == callLog[c].payload
                IN  /\ Len(parts) = Len(chunks)
                    /\ Len(sums) = Len(chunks)
                    /\ \A k \in 1..Len(parts) :
                        /\ parts[k].label = k
                        /\ sums[k].unit = k
                        /\ sums[k].payload = chunks[k]
                        /\ parts[k].summary = Strip(sums[k].response)
    /\ mode = "transcribe" =>
        /\ \A a, b \in 1..Len(results) :
            a < b => results[a].pos < results[b].pos
        /\ \A f \in 1..Len(outFiles) : outFiles[f] = results

\* three Units with different summaries reached the second pass
C6_Witness ==
    /\ mode = "notes" /\ pc = "done"
    /\ Len(chunks) = 3
    /\ Len(outFiles) = 1
    /\ results[1] # results[2]
    /\ results[2] # results[3]

OkTranscribe(e) == e.op = "transcribe" /\ e.ok

\* at least 30% of the characters are in the target script
MostlyTargetScript(t) ==
    10 * Cardinality({j \in 1..Len(t) : IsTargetScript(t[j])}) >= 3 * Len(t)

TargetCount(t) == Cardinality({j \in 1..Len(t) : IsTargetScript(t[j])})

\* C8 as stated: True for every all-target string when threshold <= 1, False
\* for every target-free string when threshold > 0, and in general True
\* exactly when count / length >= threshold.
C8_AllStrings ==
    (mode = "heuristic" /\ pc = "done") =>
        /\ (TargetCount(text) = Len(text) /\ threshold[1] <= threshold[2])
                => verdict
        /\ (TargetCount(text) = 0 /\ threshold[1] > 0) => ~verdict
        /\ text # <<>> =>
            (verdict <=>
                TargetCount(text) * threshold[2] >= threshold[1] * Len(text))

\* C8 amended: the same for every non-empty string; the empty string is
\* classified False whatever the threshold.
C8_NonEmptyStrings ==
    (mode = "heuristic" /\ pc = "done") =>
        /\ text = <<>> => ~verdict
        /\ text # <<>> =>
            /\ (TargetCount(text) = Len(text) /\ threshold[1] <= threshold[2])
                    => verdict
            /\ (TargetCount(text) = 0 /\ threshold[1] > 0) => ~verdict
            /\ verdict <=>
                TargetCount(text) * threshold[2] >= threshold[1] * Len(text)

\* a mixed string whose fraction is exactly the threshold
C8_Witness ==
    /\ mode = "heuristic" /\ pc = "done"
    /\ verdict
    /\ TargetCount(text) \in 1..(Len(text) - 1)
    /\ TargetCount(text) * threshold[2] = threshold[1] * Len(text)

\* the c-th external call of a run with n Units
ExpectedCall(c, n) ==
    IF mode = "notes"
    THEN IF c <= n THEN <<"summarize", c>> ELSE <<"final", 0>>
    ELSE IF mode = "translate" THEN <<"translate", c>>
    ELSE IF c = 1 THEN <<"ffmpeg", 0>>
    ELSE IF c = 2 THEN <<"load_model", 0>>
    ELSE <<"transcribe", c - 2>>

CallsOfFullRun ==
    IF mode = "notes" THEN Len(chunks) + 1
    ELSE IF mode = "translate" THEN Len(chunks)
    ELSE Len(chunks) + 2

\* C9: the calls of a run are a prefix of (Unit 1, ..., Unit N, aggregate),
\* one per Unit and none repeated; nothing follows a failed call; the output
\* is written at most once, only after every call has succeeded, and never
\* after a failure.
C9_SequentialAllOrNothing ==
    /\ \A c \in 1..Len(callLog) :
        /\ <<callLog[c].op, callLog[c].unit>> = ExpectedCall(c, Len(chunks))
        /\ c < Len(callLog) => callLog[c].ok
        /\ callLog[c].op \in {"summarize", "translate", "transcribe"} =>
            callLog[c].payload = chunks[callLog[c].unit]
    /\ Len(callLog) <= CallsOfFullRun \/ pc = "failed" \/ pc = "exit1"
    /\ Len(outFiles) <= 1
    /\ outFiles # <<>> =>
        /\ pc = "done"
        /\ Len(callLog) = CallsOfFullRun
        /\ mode # "transcribe" => Len(results) = Len(chunks)
        /\ \A c \in 1..Len(callLog) : callLog[c].ok
    /\ (\E c \in 1..Len(callLog) : ~callLog[c].ok) =>
        pc = "failed" /\ outFiles = <<>>
    /\ pc = "failed" => outFiles = <<>> /\ ~callLog[Len(callLog)].ok
    /\ (pc = "done" /\ inputExists) => Len(outFiles) = 1

\* the second Unit's call failed after the first succeeded: nothing written
C9_Witness ==
    /\ mode \in {"notes", "translate"}
    /\ pc = "failed"
    /\ Len(chunks) >= 3
    /\ Len(callLog) = 2
    /\ outFiles = <<>>

\* C10: split_audio returns exactly the segments written by this run, in
\* ascending index order, and the run stops before any ASR call when no
\* segment file is found.
C10_CollectsThisRun ==
    (mode = "transcribe" /\ inputExists /\ pc \notin {"start", "failed"}) =>
        /\ chunks = [k \in 1..Cardinality(produced) |-> ChunkName(k - 1)]
        /\ chunkDir = {} => pc = "exit1" /\ callLog = <<callLog[1]>>

=============================================================================
